---- MODULE Spec2Model ----
(***************************************************************************)
(* pyled: a driver for LED-matrix input modules on a serial line.          *)
(*                                                                         *)
(*   src/pyled/device.py     Device: framing, execute(), paint, display,   *)
(*                           brightness, sleep/wake, command, version      *)
(*   src/pyled/interface.py  Interface: the list of devices and the        *)
(*                           by-index dispatch to them                     *)
(*   src/main.py             the demo script (its frame generator func)    *)
(*                                                                         *)
(* The serial transport (pyserial) is the environment: every open, write   *)
(* and read may succeed, raise an I/O error or raise some other exception, *)
(* and a read returns whatever bytes the line delivers.                    *)
(*                                                                         *)
(* Representation.  A greyscale pixel v is held as its numerator n over    *)
(* Den (v = n / Den, Den a power of two, so that v * (b + 1) is exact in   *)
(* double precision).  A Python str is a sequence of tokens.  None and the *)
(* empty bytes object are both the empty sequence (the code tells them     *)
(* apart nowhere: `if not res`).  A port is named by a number 1..NDev, and *)
(* port 0 stands for "no device" (the index lookup raised).                *)
(***************************************************************************)
EXTENDS Integers, Sequences, FiniteSets, TLC

\* ------------------------------------------------------------------ bounds
\* Number of ports find_ports() discovered.
NDev == 2
\* Connections a run may open (caps the handle counter).
MaxConn == 4
\* v = n / 2^DenBits for a greyscale pixel.
DenBits == 2
\* Frame indices an animation may run through.
MaxFrames == 2
\* Number of polls of the clock a frame period may take, at most.
MaxPeriod == 2

\* ------------------------------------------------------- program constants
WIDTH == 9
HEIGHT == 34
RESPONSE_SIZE == 32
NVals == 39
MaxByte == 255
FWK_MAGIC == <<50, 172>>

Den == 2 ^ DenBits
Ports == 1 .. NDev

\* ---------------------------------------------------------------- helpers
\* Python's int(x / y) for x >= 0, y > 0: truncation.
IntDiv(x, y) == x \div y

\* x | (1 << k) on a non-negative integer.
OrBit(x, k) == IF (x \div (2 ^ k)) % 2 = 1 THEN x ELSE x + 2 ^ k

\* [a for ar in array for a in ar]
RECURSIVE Flatten(_)
Flatten(array) ==
    IF array = <<>> THEN <<>> ELSE Head(array) \o Flatten(Tail(array))

\* A check of the number of columns alone.
BadDimsWidthOnly(array) == Len(array) # WIDTH

\* len(array) != WIDTH or any(len(row) != HEIGHT for row in array)
BadDims(array) ==
    \/ Len(array) # WIDTH
    \/ \E c \in 1 .. Len(array) : Len(array[c]) # HEIGHT

\* The loop with the bits of a byte filled from the top: 1 << (7 - i % 8).
RECURSIVE PackBitsMsbFirst(_, _, _, _)
PackBitsMsbFirst(flat, i, stop, byte) ==
    IF i >= stop THEN byte
    ELSE PackBitsMsbFirst(flat, i + 1, stop,
                  IF flat[i + 1] THEN OrBit(byte, 7 - (i % 8)) ELSE byte)

\* The loop of Device.display, `if v: vals[int(i / 8)] |= 1 << i % 8`, over
\* the pixels i = from .. stop - 1 of the flattened matrix, which all fall
\* into one byte of vals (i is the 0-based index of the code).
RECURSIVE PackBits(_, _, _, _)
PackBits(flat, i, stop, byte) ==
    IF i >= stop THEN byte
    ELSE PackBits(flat, i + 1, stop,
                  IF flat[i + 1] THEN OrBit(byte, i % 8) ELSE byte)

\* vals = [0 for _ in range(39)], then the loop over all the pixels: byte k
\* of vals (vals[k + 1] here) is written by the iterations with
\* int(i / 8) = k, which are i = 8k .. 8k + 7, up to the last pixel.
PackVals(flat) ==
    [k \in 1 .. NVals |->
        LET from == 8 * (k - 1)
            stop == IF from + 8 < Len(flat) THEN from + 8 ELSE Len(flat)
        IN  PackBits(flat, from, stop, 0)]

Pack(array) == PackVals(Flatten(array))

\* The mapping scaled by b instead of b + 1.
GreyByteNoPlusOne(n, b) ==
    IF n < Den THEN (IF n >= 0 THEN IntDiv(n * b, Den) ELSE 0) ELSE b

\* The byte Device.paint stages for the pixel n / Den under brightness b:
\* (int(val * (b + 1)) if val >= 0 else 0) if val < 1 else b.
GreyByte(n, b) ==
    IF n < Den THEN (IF n >= 0 THEN IntDiv(n * (b + 1), Den) ELSE 0) ELSE b

\* The frames paint_image writes: one StageGreyCol per column, then the commit.
SendCol(colid, values) == [op |-> "StageGreyCol", payload |-> <<colid>> \o values]
CommitCols == [op |-> "DrawGreyColBuffer", payload |-> <<0>>]
\* The commit written ahead of the columns.
PaintImageCommitFirst(arr, b) ==
    <<CommitCols>> \o
    [c \in 1 .. WIDTH |->
        SendCol(c - 1, [r \in 1 .. Len(arr[c]) |-> GreyByte(arr[c][r], b)])]

PaintImage(arr, b) ==
    [c \in 1 .. WIDTH |->
        SendCol(c - 1, [r \in 1 .. Len(arr[c]) |-> GreyByte(arr[c][r], b)])]
    \o <<CommitCols>>

\* The frame Device.command writes.
CommandFrame(op, params) == <<[op |-> op, payload |-> params]>>

\* -------------------------------------------------------------- transport
NoFault == [kind |-> "none", at |-> 0]
\* A fault at 0 is raised by the open, at k by the k-th write, at n + 1 by the
\* read that follows n writes.
FaultsUpTo(n) ==
    {NoFault} \cup [kind : {"io", "other"}, at : 0 .. n]

VARIABLES
    devices,    \* Interface.devices: the ports, in index order
    connected,  \* Device.connected, per port
    nconn,      \* number of serial.Serial objects opened so far
    stale,      \* handles that were open when an I/O error was raised
    wire,       \* the frames the latest call wrote, in order
    last,       \* the latest call: its arguments and how it ended
    alive,      \* the Interface object exists
    anim        \* the animation loop's state

vars == <<devices, connected, nconn, stale, wire, last, alive, anim>>

\* The part of the state Device.execute reads and writes.
\* wire starts empty with every call; raised records what the transport did to
\* the call ("none", or the kind of exception it raised).
DevState ==
    [connected |-> connected, nconn |-> nconn, stale |-> stale, wire |-> <<>>,
     raised |-> "none"]

Raise(st, exc) == [st |-> st, exc |-> exc, ret |-> <<>>]

\* A disconnect that leaves the flag as it is.
DisconnectKeepsFlag(st, p) == st

\* Device.disconnect.
Disconnect(st, p) == [st EXCEPT !.connected[p] = FALSE]

\* Device.execute on port p: cmds are the frames the command callable writes.
Execute(st, p, cmds, expect, fault, resp) ==
    IF ~st.connected[p] THEN Raise(st, "RuntimeError")
    ELSE IF fault.kind # "none" /\ fault.at = 0
    THEN \* serial.Serial(...) raised: no handle exists
         LET st0 == [st EXCEPT !.raised = fault.kind]
         IN  IF fault.kind = "io" THEN Raise(Disconnect(st0, p), "IOError")
             ELSE Raise(st0, "RuntimeError")
    ELSE
      LET h == st.nconn + 1
          n == Len(cmds)
          hit == /\ fault.kind # "none"
                 /\ fault.at <= (IF expect THEN n + 1 ELSE n)
          done == IF hit /\ fault.at <= n THEN fault.at - 1 ELSE n
          sent == [k \in 1 .. done |->
                     [port |-> p, conn |-> h, magic |-> FWK_MAGIC,
                      op |-> cmds[k].op, payload |-> cmds[k].payload]]
          st1 == [st EXCEPT !.nconn = h, !.wire = @ \o sent,
                            !.raised = IF hit THEN fault.kind ELSE @]
      IN  IF ~hit
          THEN [st |-> st1, exc |-> "none",
                ret |-> IF expect THEN resp ELSE <<>>]
          ELSE IF fault.kind = "io"
          THEN Raise([Disconnect(st1, p) EXCEPT !.stale = @ \cup {h}], "IOError")
          ELSE Raise(st1, "RuntimeError")

\* Device.command.
Command(st, p, op, params, expect, fault, resp) ==
    Execute(st, p, CommandFrame(op, params), expect, fault, resp)

\* Device.brightness.
Brightness(st, p, value, fault) ==
    IF ~(0 <= value /\ value <= MaxByte) THEN Raise(st, "AssertionError")
    ELSE Command(st, p, "Brightness", <<value>>, FALSE, fault, <<>>)

\* Device.paint.
Paint(st, p, array, b, fault) ==
    IF BadDims(array) THEN Raise(st, "ValueError")
    ELSE IF ~(0 <= b /\ b <= MaxByte) THEN Raise(st, "AssertionError")
    ELSE Execute(st, p, PaintImage(array, b), FALSE, fault, <<>>)

\* Device.display.
Display(st, p, array, b, f1, f2) ==
    IF BadDims(array) THEN Raise(st, "ValueError")
    ELSE LET r == Command(st, p, "Draw", Pack(array), FALSE, f1, <<>>)
         IN  IF r.exc # "none" THEN r ELSE Brightness(r.st, p, b, f2)

\* Device.sleep and Device.wake: the payload is [True] or [False].
Sleep(st, p, fault) == Command(st, p, "Sleep", <<1>>, FALSE, fault, <<>>)
Wake(st, p, fault) == Command(st, p, "Sleep", <<0>>, FALSE, fault, <<>>)

\* str(n) for n >= 0, one token per decimal digit.
DigitChar == <<"0", "1", "2", "3", "4", "5", "6", "7", "8", "9">>
RECURSIVE Str(_)
Str(n) == IF n < 10 THEN <<DigitChar[n + 1]>>
          ELSE Str(n \div 10) \o <<DigitChar[(n % 10) + 1]>>

\* (x & 0xF0) >> 4 and x & 0xF on a byte.
HighNibble(x) == (x \div 16) % 16
LowNibble(x) == x % 16

\* The decoding Device.version does once a response is in hand; res[k] of
\* the code is res[k + 1] here, and an index past the end raises IndexError.
Decode(res) ==
    IF res = <<>> THEN [exc |-> "none", ret |-> <<"Unknown">>]
    ELSE IF Len(res) < 3 THEN [exc |-> "IndexError", ret |-> <<>>]
    ELSE LET major == res[1]
             minor == HighNibble(res[2])
             patch == LowNibble(res[2])
             pre_release == res[3]
             version == Str(major) \o <<".">> \o Str(minor) \o <<".">> \o Str(patch)
         IN  [exc |-> "none",
              ret |-> IF pre_release # 0 THEN version \o <<" (Pre-release)">>
                      ELSE version]

\* Device.version.
Version(st, p, fault, resp) ==
    LET r == Command(st, p, "Version", <<>>, TRUE, fault, resp)
    IN  IF r.exc # "none" THEN r
        ELSE LET d == Decode(r.ret)
             IN  [st |-> r.st, exc |-> d.exc, ret |-> d.ret]

\* -------------------------------------------------------------- Interface
\* An index taken modulo the number of devices.
LookupWrap(id) == devices[(id % Len(devices)) + 1]

\* self.devices[id]: the port, or 0 when the list raises IndexError.
Lookup(id) ==
    LET n == Len(devices)
    IN  IF 0 <= id /\ id < n THEN devices[id + 1]
        ELSE IF -n <= id /\ id < 0 THEN devices[n + id + 1]
        ELSE 0

\* self.devices[id].<method>(...)
Dispatch(id, Method(_)) ==
    IF Lookup(id) = 0 THEN Raise(DevState, "IndexError") ELSE Method(Lookup(id))

\* self.devices[::-1]
RECURSIVE Reverse(_)
Reverse(s) == IF s = <<>> THEN <<>> ELSE Reverse(Tail(s)) \o <<Head(s)>>

\* No animation is running and none has just ended (pc is "run" inside the
\* loop and "done" once it has been left, until the next call).
Idle ==
    [pc |-> "idle", port |-> 0, method |-> "display", ntimes |-> 0, period |-> 1,
     gen |-> 0, b |-> 0, n |-> 0, elapsed |-> 0, rendered |-> <<>>]

\* A call has returned or raised: the state it leaves behind.
Finish(op, id, array, value, r) ==
    /\ connected' = r.st.connected
    /\ nconn' = r.st.nconn
    /\ stale' = r.st.stale
    /\ wire' = r.st.wire
    /\ last' = [op |-> op, id |-> id, port |-> Lookup(id), array |-> array,
                value |-> value, raised |-> r.st.raised, exc |-> r.exc,
                ret |-> r.ret]
    /\ anim' = Idle
    /\ UNCHANGED <<devices, alive>>

\* No call is running, and the handle counter has room for one more call.
CanCall == alive /\ anim.pc # "run" /\ nconn + 2 <= MaxConn

\* Interface.paint
IPaint(id, array, b, fault) ==
    /\ CanCall
    /\ Finish("paint", id, array, b,
              Dispatch(id, LAMBDA p : Paint(DevState, p, array, b, fault)))

\* Interface.display
IDisplay(id, array, b, f1, f2) ==
    /\ CanCall
    /\ Finish("display", id, array, b,
              Dispatch(id, LAMBDA p : Display(DevState, p, array, b, f1, f2)))

\* Interface.brightness
IBrightness(id, value, fault) ==
    /\ CanCall
    /\ Finish("brightness", id, <<>>, value,
              Dispatch(id, LAMBDA p : Brightness(DevState, p, value, fault)))

\* Interface.sleep
ISleep(id, fault) ==
    /\ CanCall
    /\ Finish("sleep", id, <<>>, 0,
              Dispatch(id, LAMBDA p : Sleep(DevState, p, fault)))

\* Interface.wake
IWake(id, fault) ==
    /\ CanCall
    /\ Finish("wake", id, <<>>, 0,
              Dispatch(id, LAMBDA p : Wake(DevState, p, fault)))

\* Interface.command
ICommand(id, op, params, expect, fault, resp) ==
    /\ CanCall
    /\ Finish("command", id, params, 0,
              Dispatch(id, LAMBDA p :
                  Command(DevState, p, op, params, expect, fault, resp)))

\* Device.version, read on the device at index id.
IVersion(id, fault, resp) ==
    /\ CanCall
    /\ Finish("version", id, resp, 0,
              Dispatch(id, LAMBDA p : Version(DevState, p, fault, resp)))

\* Interface.remap
Remap ==
    /\ alive /\ anim.pc # "run"
    /\ devices' = Reverse(devices)
    /\ wire' = <<>>
    /\ last' = [op |-> "remap", id |-> 0, port |-> 0, array |-> <<>>,
                value |-> 0, raised |-> "none", exc |-> "none", ret |-> <<>>]
    /\ anim' = Idle
    /\ UNCHANGED <<connected, nconn, stale, alive>>

\* Interface.__del__: the loop unbinds its own variable, once per device, and
\* Device defines no finalizer: nothing is written and no flag changes.
Teardown ==
    /\ alive /\ anim.pc # "run"
    /\ alive' = FALSE
    /\ wire' = <<>>
    /\ last' = [op |-> "teardown", id |-> 0, port |-> 0, array |-> <<>>,
                value |-> 0, raised |-> "none", exc |-> "none", ret |-> <<>>]
    /\ anim' = Idle
    /\ UNCHANGED <<devices, connected, nconn, stale>>

\* ------------------------------------------------------------ input sets
\* A matrix of ncols columns of HEIGHT pixels each, but for column bad, which
\* has badlen; every pixel is Pixel(c, r).
Shaped(ncols, bad, badlen, Pixel(_, _)) ==
    [c \in 1 .. ncols |->
        [r \in 1 .. (IF c = bad THEN badlen ELSE HEIGHT) |-> Pixel(c, r)]]

\* The demo's frame generator, func(n): ((i + n) * j % 3) % 2.
FuncPixel(n, c, r) == ((((r - 1) + n) * (c - 1)) % 3) % 2
Func(n) == Shaped(WIDTH, 0, 0, LAMBDA c, r : FuncPixel(n, c, r) # 0)

\* A greyscale ramp whose numerators run from below 0 to above Den.
RampPixel(k, c, r) == (((c - 1) * HEIGHT + (r - 1) + k) % (2 * Den + 2)) - 1
Ramp(k) == Shaped(WIDTH, 0, 0, LAMBDA c, r : RampPixel(k, c, r))

\* Shapes Device.paint and Device.display must refuse.
BadShapes(Pixel(_, _)) ==
    {Shaped(n, 0, 0, Pixel) : n \in {0, WIDTH - 1, WIDTH + 1}}
    \cup {Shaped(WIDTH, c, l, Pixel) :
            c \in {1, WIDTH}, l \in {0, HEIGHT - 1, HEIGHT + 1}}

BadBool == BadShapes(LAMBDA c, r : FuncPixel(0, c, r) # 0)
BadGrey == BadShapes(LAMBDA c, r : RampPixel(0, c, r))

Values == {-1, 0, MaxByte, MaxByte + 1}

\* Responses the line may deliver to a read of RESPONSE_SIZE bytes.
Padded(s) == s \o [k \in 1 .. (RESPONSE_SIZE - Len(s)) |-> 0]
Responses ==
    {<<>>, <<1>>, <<1, 35>>, <<1, 35, 0>>, <<1, 35, 1>>, <<12, 255, 7, 9>>,
     Padded(<<1, 35, 1>>), Padded(<<0, 16, 0>>)}

\* ------------------------------------------------------------- animation
\* Interface.animate forwards to Device.animate, which device.py does not
\* hold; the loop below is the one the specification describes: poll the
\* clock; once the time since the last frame exceeds the frame period, ask
\* the generator for frame n, stop if it has none, else render it with the
\* named method, count it and restart the period; stop after ntimes frames.
\* The generator is func of the demo script: it has data below index gen.
CanAnimate == alive /\ anim.pc # "run" /\ nconn < MaxConn

\* The call as last records it: value is ntimes, array holds the index from
\* which the generator has no data.
AnimLast(id, port, ntimes, gen, exc) ==
    [op |-> "animate", id |-> id, port |-> port, array |-> <<gen>>,
     value |-> ntimes, raised |-> "none", exc |-> exc, ret |-> <<>>]

\* The index lookup of Interface.animate, then Device.animate is entered
\* with the period and the frame count it is handed.
EnterAnimate(id, method, ntimes, b, gen, fwdPeriod, fwdNtimes) ==
    /\ CanAnimate
    /\ IF Lookup(id) = 0
       THEN /\ last' = AnimLast(id, 0, ntimes, gen, "IndexError")
            /\ anim' = Idle
       ELSE /\ last' = AnimLast(id, Lookup(id), ntimes, gen, "pending")
            /\ anim' = [pc |-> "run", port |-> Lookup(id), method |-> method,
                        ntimes |-> fwdNtimes, period |-> fwdPeriod, gen |-> gen,
                        b |-> b, n |-> 0, elapsed |-> 0, rendered |-> <<>>]
    /\ wire' = <<>>
    /\ UNCHANGED <<devices, connected, nconn, stale, alive>>

\* A forwarding that hands fps and ntimes over in each other's place.
IAnimateSwapped(id, method, period, ntimes, b, gen) ==
    EnterAnimate(id, method, ntimes, b, gen, ntimes, period)

\* Interface.animate: self.devices[id].animate(method, frames, fps, ntimes,
\* brightness); the frame period 1 / fps is counted in polls of the clock.
IAnimate(id, method, period, ntimes, b, gen) ==
    EnterAnimate(id, method, ntimes, b, gen, period, ntimes)

\* A poll that finds the frame period not yet over; the clock moves on.
AnimPoll ==
    /\ anim.pc = "run" /\ anim.n < anim.ntimes
    /\ anim.elapsed <= anim.period
    /\ anim' = [anim EXCEPT !.elapsed = @ + 1]
    /\ UNCHANGED <<devices, connected, nconn, stale, wire, last, alive>>

\* The period is over and the generator has no data for frame n: return.
AnimNoData ==
    /\ anim.pc = "run" /\ anim.n < anim.ntimes
    /\ anim.elapsed > anim.period
    /\ anim.n >= anim.gen
    /\ anim' = [anim EXCEPT !.pc = "done"]
    /\ last' = [last EXCEPT !.exc = "none"]
    /\ UNCHANGED <<devices, connected, nconn, stale, wire, alive>>

\* The arguments the generator hands over for frame n: a bitmap for display,
\* a greyscale ramp for paint.
FuncFrames == [n \in 0 .. MaxFrames |-> Func(n)]
RampFrames == [n \in 0 .. MaxFrames |-> Ramp(n)]
FrameArray(method, n) ==
    IF method = "display" THEN FuncFrames[n] ELSE RampFrames[n]

\* The period is over and frame n is rendered; an exception of the rendering
\* method leaves the loop.
AnimRender(f1, f2) ==
    /\ anim.pc = "run" /\ anim.n < anim.ntimes
    /\ anim.elapsed > anim.period
    /\ anim.n < anim.gen
    /\ LET arr == FrameArray(anim.method, anim.n)
           r == IF anim.method = "display"
                THEN Display(DevState, anim.port, arr, anim.b, f1, f2)
                ELSE Paint(DevState, anim.port, arr, anim.b, f1)
       IN  /\ connected' = r.st.connected
           /\ nconn' = r.st.nconn
           /\ stale' = r.st.stale
           /\ wire' = r.st.wire
           /\ anim' = [anim EXCEPT
                         !.rendered = Append(@, anim.n),
                         !.n = IF r.exc = "none" THEN @ + 1 ELSE @,
                         !.elapsed = 0,
                         !.pc = IF r.exc = "none" THEN "run" ELSE "done"]
           /\ last' = IF r.exc = "none" THEN last
                      ELSE [last EXCEPT !.exc = r.exc, !.raised = r.st.raised]
    /\ UNCHANGED <<devices, alive>>

\* ntimes frames are done: return.
AnimReturn ==
    /\ anim.pc = "run" /\ anim.n >= anim.ntimes
    /\ anim' = [anim EXCEPT !.pc = "done"]
    /\ last' = [last EXCEPT !.exc = "none"]
    /\ UNCHANGED <<devices, connected, nconn, stale, wire, alive>>

\* One step of the running loop, the transport answering with a fault of F.
AnimLoopOver(F) ==
    \/ AnimPoll
    \/ AnimNoData
    \/ \E f1 \in F, f2 \in F : AnimRender(f1, f2)
    \/ AnimReturn

\* The transport, while an animation runs: it works, or a write fails.
AnimFaults == {NoFault, [kind |-> "io", at |-> 1], [kind |-> "other", at |-> 1]}

AnimLoop == AnimLoopOver(AnimFaults)

\* Interface.__init__ and Device.__init__.
Init ==
    /\ devices = [i \in 1 .. NDev |-> i]
    /\ connected = [p \in Ports |-> TRUE]
    /\ nconn = 0
    /\ stale = {}
    /\ wire = <<>>
    /\ alive = TRUE
    /\ last = [op |-> "init", id |-> 0, port |-> 0, array |-> <<>>,
               value |-> 0, raised |-> "none", exc |-> "none", ret |-> <<>>]
    /\ anim = Idle

\* The arguments of a paint: a refused call meets no transport, an accepted
\* one meets every fault of the open and of its ten writes.
PaintArgs ==
    [array : BadGrey, b : Values, fault : {NoFault}]
    \cup [array : {Ramp(0)}, b : Values \ (0 .. MaxByte), fault : {NoFault}]
    \cup [array : {Ramp(0)}, b : Values \cap (0 .. MaxByte),
          fault : FaultsUpTo(WIDTH + 1)]

\* The arguments of a display: f1 is the transport's answer to the Draw
\* command, f2 to the Brightness command that follows when Draw got through.
DisplayArgs ==
    [array : BadBool, b : Values, f1 : {NoFault}, f2 : {NoFault}]
    \cup [array : {Func(0)}, b : Values, f1 : FaultsUpTo(1) \ {NoFault},
          f2 : {NoFault}]
    \cup [array : {Func(0)}, b : Values, f1 : {NoFault}, f2 : FaultsUpTo(1)]

\* ------------------------------------------------- the device under calls
\* Calls on the device at index 0, with every outcome of the transport.
Next ==
    \/ \E c \in PaintArgs : IPaint(0, c.array, c.b, c.fault)
    \/ \E c \in DisplayArgs : IDisplay(0, c.array, c.b, c.f1, c.f2)
    \/ \E v \in Values, f \in FaultsUpTo(1) : IBrightness(0, v, f)
    \/ \E f \in FaultsUpTo(1) : ISleep(0, f)
    \/ \E f \in FaultsUpTo(1) : IWake(0, f)
    \/ \E f \in FaultsUpTo(2), resp \in Responses : IVersion(0, f, resp)
    \/ Teardown

Spec == Init /\ [][Next]_vars

\* ------------------------------------------------- the Interface's dispatch
Ids == -(NDev + 1) .. NDev
Methods == {"paint", "display"}

\* Every operation that takes a device index, on every index.
IfaceNext ==
    \/ \E id \in Ids : IPaint(id, Ramp(0), MaxByte, NoFault)
    \/ \E id \in Ids : IDisplay(id, Func(0), MaxByte, NoFault, NoFault)
    \/ \E id \in Ids : IBrightness(id, MaxByte, NoFault)
    \/ \E id \in Ids, f \in {NoFault, [kind |-> "io", at |-> 1]} : ISleep(id, f)
    \/ \E id \in Ids : IWake(id, NoFault)
    \/ \E id \in Ids :
          ICommand(id, "Version", <<>>, TRUE, NoFault, Padded(<<1, 35, 1>>))
    \/ \E id \in Ids, m \in Methods, gen \in 0 .. 1 :
          IAnimate(id, m, 1, 1, MaxByte, gen)
    \/ AnimLoopOver({NoFault})
    \/ Remap

IfaceSpec == Init /\ [][IfaceNext]_vars

\* ----------------------------------------------------- the animation loop
\* One animation on the freshly built, connected device.
AnimNext ==
    \/ /\ last.op = "init"
       /\ \E m \in Methods, period \in 1 .. MaxPeriod, ntimes \in 0 .. MaxFrames,
             gen \in 0 .. MaxFrames :
             IAnimate(0, m, period, ntimes, MaxByte, gen)
    \/ AnimLoop

\* The loop runs on the calling thread and the clock it polls moves on.
AnimSpec == Init /\ [][AnimNext]_vars /\ WF_vars(AnimLoop)

\* ------------------------------------------------ the packing of a bitmap
\* One lit pixel, at index k of the flattened matrix.
OnePixel(k) == Shaped(WIDTH, 0, 0, LAMBDA c, r : (c - 1) * HEIGHT + (r - 1) = k)
AllPixels == Shaped(WIDTH, 0, 0, LAMBDA c, r : TRUE)
Bitmaps ==
    {OnePixel(k) : k \in 0 .. WIDTH * HEIGHT - 1}
    \cup {Func(n) : n \in 0 .. MaxFrames} \cup {AllPixels}

\* One display of one bitmap on the freshly built device.
PackNext ==
    /\ last.op = "init"
    /\ \E m \in Bitmaps : IDisplay(0, m, MaxByte, NoFault, NoFault)

PackSpec == Init /\ [][PackNext]_vars

\* -------------------------------------------- the greyscale mapping of paint
Brights == (0 .. 15) \cup {127, 128, MaxByte - 1, MaxByte}

\* One paint of one ramp on the freshly built device.
GreyNext ==
    /\ last.op = "init"
    /\ \E k \in 0 .. 2 * Den + 1, b \in Brights : IPaint(0, Ramp(k), b, NoFault)

GreySpec == Init /\ [][GreyNext]_vars

\* =================================================================== claims
\* The operations of the Interface that take a device index.
IndexedOps ==
    {"paint", "display", "brightness", "sleep", "wake", "command", "animate"}

\* A matrix that is not 9 columns of 34 values each.
Malformed(array) ==
    \/ Len(array) # 9
    \/ \E c \in 1 .. Len(array) : Len(array[c]) # 34

\* Bit i of a packed payload: bit i mod 8 of byte floor(i / 8).
Bit(payload, i) == (payload[(i \div 8) + 1] \div (2 ^ (i % 8))) % 2 = 1

\* The matrix a packed payload stands for.
Unpack(payload) ==
    [c \in 1 .. 9 |-> [r \in 1 .. 34 |-> Bit(payload, (c - 1) * 34 + (r - 1))]]

\* Python's round(x / d) for x >= 0, d > 0: to the nearest, ties to even.
PyRound(x, d) ==
    LET q == x \div d
        twice == 2 * (x % d)
    IN  IF twice < d THEN q
        ELSE IF twice > d THEN q + 1
        ELSE IF q % 2 = 0 THEN q ELSE q + 1

\* The version string the specification gives for a response of 3 bytes or more.
VersionString(res) ==
    Str(res[1]) \o <<".">> \o Str(res[2] \div 16) \o <<".">> \o Str(res[2] % 16)
    \o (IF res[3] # 0 THEN <<" (Pre-release)">> ELSE <<>>)

\* ----------------------------------------------------------------------- C1
\* C1: when the transport raises an I/O error inside Device.execute (on the
\* open, a write or the read) the device is marked disconnected and the call
\* ends in IOError, where any other exception of the transport ends in the
\* generic RuntimeError; and whatever a call writes, it writes to a device that
\* was connected when the call began, over a handle opened during the call,
\* never over a handle that was open when an I/O error was raised.
C1_IoFailureDisconnects ==
    /\ [](/\ last.raised = "io" => last.exc = "IOError" /\ ~connected[last.port]
          /\ last.raised = "other" => last.exc = "RuntimeError"
          /\ last.exc = "IOError" => last.raised = "io")
    /\ [][\A k \in DOMAIN wire' :
             /\ connected[wire'[k].port]
             /\ wire'[k].conn > nconn
             /\ wire'[k].conn \notin stale]_vars

\* A call on a device that an earlier I/O error disconnected: it fails and
\* writes nothing.
C1_Witness ==
    /\ stale # {}
    /\ last.op = "sleep" /\ last.raised = "none" /\ last.exc = "RuntimeError"
    /\ ~connected[last.port]
    /\ wire = <<>>

\* ----------------------------------------------------------------------- C2
\* C2: a brightness, display or paint call with a brightness outside 0..255
\* is refused before any I/O: it raises, writes no frame and leaves the
\* connected flags as they were.
C2_OutOfRangeBeforeIO ==
    [][(/\ last'.op \in {"brightness", "display", "paint"}
        /\ last'.port # 0
        /\ last'.value \notin 0 .. 255)
       => /\ last'.exc # "none"
          /\ wire' = <<>>
          /\ connected' = connected]_vars

\* ----------------------------------------------------------------------- C3
\* C3: a paint or display call with a matrix that is not 9 columns of 34
\* values is refused before any I/O: it raises ValueError, opens no
\* connection, writes no frame and leaves the connected flags as they were.
C3_BadShapeBeforeIO ==
    [][(/\ last'.op \in {"paint", "display"}
        /\ last'.port # 0
        /\ Malformed(last'.array))
       => /\ last'.exc = "ValueError"
          /\ last'.raised = "none"
          /\ wire' = <<>>
          /\ nconn' = nconn
          /\ connected' = connected]_vars

\* A display of nine columns, one of them not 34 long, has been refused.
C3_Witness ==
    /\ last.op = "display"
    /\ Len(last.array) = 9 /\ Malformed(last.array)
    /\ last.exc = "ValueError"

\* ----------------------------------------------------------------------- C4
\* C4: the Draw payload of a display of a 9x34 matrix is 39 bytes, each in
\* 0..255; bit i mod 8 of byte floor(i / 8) is set exactly when pixel i of
\* the flattened matrix is lit, bits 306..311 are clear, and unpacking the
\* payload gives the matrix back.
C4_PackRoundTrip ==
    (last.op = "display" /\ wire # <<>> /\ wire[1].op = "Draw")
    => LET pl == wire[1].payload
       IN  /\ Len(pl) = 39
           /\ \A k \in 1 .. Len(pl) : pl[k] \in 0 .. 255
           /\ \A i \in 0 .. 305 :
                 Bit(pl, i) <=> last.array[(i \div 34) + 1][(i % 34) + 1]
           /\ \A i \in 306 .. 311 : ~Bit(pl, i)
           /\ Unpack(pl) = last.array

\* The bitmap whose only lit pixel is the last one, 305, has been displayed:
\* bit 1 of the last byte.
C4_Witness ==
    /\ last.op = "display" /\ last.exc = "none"
    /\ last.array[9][34] /\ ~last.array[9][33]
    /\ wire[1].payload[39] = 2

\* ----------------------------------------------------------------------- C5
\* C5 as amended: in a paint with brightness b in 0..255, a pixel v < 0 is
\* staged as 0, a pixel 0 <= v < 1 as v * (b + 1) truncated to an integer
\* (not rounded), which lies in 0..b, and a pixel v >= 1 as b.
C5_GreyTruncates ==
    (last.op = "paint" /\ last.exc = "none")
    => \A c \in 1 .. 9, r \in 1 .. 34 :
          LET n == last.array[c][r]
              b == last.value
              y == wire[c].payload[r + 1]
          IN  /\ n < 0 => y = 0
              /\ (0 <= n /\ n < Den) =>
                    /\ y * Den <= n * (b + 1)
                    /\ n * (b + 1) < (y + 1) * Den
                    /\ 0 <= y /\ y <= b
              /\ n >= Den => y = b

\* C5 as stated: the byte of a pixel 0 <= v < 1 is round(v * (b + 1)) and
\* lies in 0..b.
C5_GreyRounds ==
    (last.op = "paint" /\ last.exc = "none")
    => \A c \in 1 .. 9, r \in 1 .. 34 :
          LET n == last.array[c][r]
              b == last.value
              y == wire[c].payload[r + 1]
          IN  /\ n < 0 => y = 0
              /\ (0 <= n /\ n < Den) =>
                    /\ y = PyRound(n * (b + 1), Den)
                    /\ 0 <= y /\ y <= b
              /\ n >= Den => y = b

\* A pixel of one half painted under brightness 2: 1.5, staged as 1.
C5_Witness ==
    /\ last.op = "paint" /\ last.exc = "none" /\ last.value = 2
    /\ \E c \in 1 .. 9, r \in 1 .. 34 :
          /\ 2 * last.array[c][r] = Den
          /\ wire[c].payload[r + 1] = 1

\* ----------------------------------------------------------------------- C6
\* C6: a version query whose command was written and whose read returned
\* never fails, whatever the length of the response: it returns "Unknown" for
\* an empty response, a string for a response of one or two bytes, and
\* "major.minor.patch", with " (Pre-release)" when byte 2 is not zero, for a
\* response of three bytes or more.
C6_VersionNeverFails ==
    (last.op = "version" /\ last.raised = "none" /\ Len(wire) = 1)
    => /\ last.exc = "none"
       /\ Len(last.array) = 0 => last.ret = <<"Unknown">>
       /\ Len(last.array) >= 3 => last.ret = VersionString(last.array)

\* ----------------------------------------------------------------------- C7
\* C7: an animation makes its rendering calls for the frame indices 0, 1, ...
\* in increasing order, never more than ntimes of them; when it returns it
\* has made exactly ntimes calls, or exactly as many as the index of the first
\* frame the generator had no data for (none at all when ntimes is 0); and
\* once entered it always comes to an end.
C7_AnimateTerminates ==
    /\ [](anim.pc # "idle" =>
            /\ Len(anim.rendered) <= last.value
            /\ \A k \in 1 .. Len(anim.rendered) : anim.rendered[k] = k - 1)
    /\ []((anim.pc = "done" /\ last.exc = "none") =>
            Len(anim.rendered) =
                (IF last.array[1] < last.value THEN last.array[1] ELSE last.value))
    /\ ((anim.pc = "run") ~> (anim.pc = "done"))

\* An animation of MaxFrames frames has returned after rendering them all.
C7_Witness ==
    /\ anim.pc = "done" /\ last.op = "animate" /\ last.exc = "none"
    /\ last.value = MaxFrames
    /\ Len(anim.rendered) = MaxFrames

\* ----------------------------------------------------------------------- C8
\* C8 as amended: a call with an index below -len(devices) or above
\* len(devices) - 1 raises IndexError and no device receives a frame; a call
\* with an index i in -len(devices)..-1 does not: it goes to the device at
\* position len(devices) + i.
C8_IndexOutsideBothRanges ==
    (last.op \in IndexedOps)
    => /\ (last.id < -Len(devices) \/ last.id >= Len(devices))
            => last.exc = "IndexError" /\ wire = <<>>
       /\ (-Len(devices) <= last.id /\ last.id < 0)
            => /\ last.exc # "IndexError"
               /\ \A k \in DOMAIN wire :
                     wire[k].port = devices[Len(devices) + last.id + 1]

\* C8 as stated: a call with an index outside 0..len(devices)-1, negative
\* ones included, raises IndexError and no device receives a frame.
C8_IndexOutsideZeroToLen ==
    (last.op \in IndexedOps /\ last.id \notin 0 .. Len(devices) - 1)
    => last.exc = "IndexError" /\ wire = <<>>

\* An animate call with the index len(devices) has raised IndexError.
C8_Witness ==
    /\ last.op = "animate" /\ last.id = Len(devices)
    /\ last.exc = "IndexError" /\ wire = <<>>

\* ----------------------------------------------------------------------- C9
\* C9: a paint writes over one connection, the columns first: frame k <= 9
\* stages column k - 1 with 34 values, and a commit frame, with payload 0,
\* is only ever the tenth frame; a paint that succeeds has written exactly
\* these ten frames, and a paint that raised has written no commit frame.
C9_PaintStagesThenCommits ==
    (last.op = "paint")
    => /\ Len(wire) <= 10
       /\ \A k \in DOMAIN wire :
             /\ wire[k].conn = wire[1].conn
             /\ k <= 9 => /\ wire[k].op = "StageGreyCol"
                          /\ Len(wire[k].payload) = 35
                          /\ wire[k].payload[1] = k - 1
             /\ wire[k].op = "DrawGreyColBuffer" =>
                   k = 10 /\ wire[k].payload = <<0>>
       /\ last.exc = "none" =>
             Len(wire) = 10 /\ wire[10].op = "DrawGreyColBuffer"
       /\ last.exc # "none" => Len(wire) <= 9

\* A paint has succeeded: ten frames are on the wire.
C9_Witness ==
    /\ last.op = "paint" /\ last.exc = "none"
    /\ Len(wire) = 10

\* ---------------------------------------------------------------------- C10
\* C10: the teardown of the Interface sends every device a Brightness command
\* with value 0 and leaves it disconnected.
C10_TeardownBlanks ==
    (last.op = "teardown")
    => \A p \in Ports :
          /\ ~connected[p]
          /\ \E k \in DOMAIN wire :
                /\ wire[k].port = p
                /\ wire[k].op = "Brightness"
                /\ wire[k].payload = <<0>>

====
